---- MODULE Spec2Model ----
(***************************************************************************)
(* A model of microbundle's build driver (src/src/index.js): entry         *)
(* resolution, output path planning, the externals predicate, the shebang  *)
(* cache, the format ordering and the one-shot / watch orchestration.      *)
(*                                                                         *)
(* JavaScript strings are sequences of one-character strings, so that the  *)
(* regular expressions and path operations of the source are computed      *)
(* character by character.  The empty sequence stands for both the empty   *)
(* string and an absent (undefined) string option: the source only ever    *)
(* tests those fields for truthiness.  The manifest's source, which may be *)
(* an array, keeps the difference between absent and the empty array.      *)
(***************************************************************************)
EXTENDS Integers, Sequences, FiniteSets, TLC

(***************************************************************************)
(* Bounds of the model.                                                    *)
(***************************************************************************)
\* longest list of formats given in options.format
MaxFormats == 3
\* longest module id the engine asks the externals predicate about
MaxIdLen == 4

\* the number of builds one process runs in turn
MaxBuilds == 2

\* the number of times the disk changes under a running build
MaxDiskChanges == 1

(***************************************************************************)
(* String primitives of JavaScript.                                        *)
(***************************************************************************)
LowerChars == <<"a","b","c","d","e","f","g","h","i","j","k","l","m",
                "n","o","p","q","r","s","t","u","v","w","x","y","z">>

UpperChars == <<"A","B","C","D","E","F","G","H","I","J","K","L","M",
                "N","O","P","Q","R","S","T","U","V","W","X","Y","Z">>

DigitChars == <<"0","1","2","3","4","5","6","7","8","9">>

SeqIndex(tbl, c) ==
    IF \E i \in 1..Len(tbl) : tbl[i] = c
    THEN CHOOSE i \in 1..Len(tbl) : tbl[i] = c
    ELSE 0

IsLower(c) == SeqIndex(LowerChars, c) > 0

IsUpper(c) == SeqIndex(UpperChars, c) > 0

IsDigit(c) == SeqIndex(DigitChars, c) > 0

\* the printable ASCII characters U+0020 to U+005F, in code unit order
AsciiChars ==
    <<" ","!","\"","#","$","%","&","'","(",")","*","+",",","-",".","/",
      "0","1","2","3","4","5","6","7","8","9",":",";","<","=",">","?",
      "@","A","B","C","D","E","F","G","H","I","J","K","L","M","N","O",
      "P","Q","R","S","T","U","V","W","X","Y","Z","[","\\","]","^","_">>

\* the characters U+007B to U+007E
AsciiBraces == <<"{","|","}","~">>

\* String.prototype.charCodeAt(0), for tab, line feed, carriage return and
\* the printable ASCII characters but U+0060, which a string of this
\* language cannot hold
CharCode(c) ==
    IF c = "\t" THEN 9
    ELSE IF c = "\n" THEN 10
    ELSE IF c = "\r" THEN 13
    ELSE IF IsLower(c) THEN 96 + SeqIndex(LowerChars, c)
    ELSE IF SeqIndex(AsciiBraces, c) > 0 THEN 122 + SeqIndex(AsciiBraces, c)
    ELSE 31 + (CHOOSE i \in 1..Len(AsciiChars) : AsciiChars[i] = c)

toUpperCase(c) == IF IsLower(c) THEN UpperChars[SeqIndex(LowerChars, c)] ELSE c

toLowerCase(c) == IF IsUpper(c) THEN LowerChars[SeqIndex(UpperChars, c)] ELSE c

\* a > b on strings: lexicographic on code units, a proper prefix is smaller
RECURSIVE StrGt(_, _)
StrGt(a, b) ==
    IF a = <<>> THEN FALSE
    ELSE IF b = <<>> THEN TRUE
    ELSE IF CharCode(Head(a)) # CharCode(Head(b))
         THEN CharCode(Head(a)) > CharCode(Head(b))
    ELSE StrGt(Tail(a), Tail(b))

StartsWith(s, p) == Len(p) <= Len(s) /\ SubSeq(s, 1, Len(p)) = p

EndsWith(s, p) == Len(p) <= Len(s) /\ SubSeq(s, Len(s) - Len(p) + 1, Len(s)) = p

\* String.prototype.indexOf, 1-based; 0 when sub does not occur
IndexOf(s, sub) ==
    LET hits == {i \in 1..(Len(s) - Len(sub) + 1) : SubSeq(s, i, i + Len(sub) - 1) = sub}
    IN  IF hits = {} THEN 0 ELSE CHOOSE i \in hits : \A j \in hits : i <= j

LastIndexOfChar(s, c) ==
    LET hits == {i \in 1..Len(s) : s[i] = c}
    IN  IF hits = {} THEN 0 ELSE CHOOSE i \in hits : \A j \in hits : i >= j

\* s.replace(sub, '') with a string pattern: the first occurrence only
RemoveFirst(s, sub) ==
    LET i == IndexOf(s, sub)
    IN  IF i = 0 THEN s
        ELSE SubSeq(s, 1, i - 1) \o SubSeq(s, i + Len(sub), Len(s))

\* String.prototype.split on a one-character separator
RECURSIVE Split(_, _)
Split(s, sep) ==
    LET i == IndexOf(s, <<sep>>)
    IN  IF i = 0 THEN <<s>>
        ELSE <<SubSeq(s, 1, i - 1)>> \o Split(SubSeq(s, i + 1, Len(s)), sep)

\* Array.prototype.join
RECURSIVE Join(_, _)
Join(parts, sep) ==
    IF parts = <<>> THEN <<>>
    ELSE IF Len(parts) = 1 THEN parts[1]
    ELSE parts[1] \o sep \o Join(Tail(parts), sep)

(***************************************************************************)
(* Node's posix path module.                                               *)
(***************************************************************************)
RECURSIVE StripTrailingSlashes(_)
StripTrailingSlashes(p) ==
    IF Len(p) > 1 /\ p[Len(p)] = "/"
    THEN StripTrailingSlashes(SubSeq(p, 1, Len(p) - 1))
    ELSE p

\* path.dirname: up to the last separator that has a segment after it; the
\* separators before that one are kept
dirname(p) ==
    LET hasRoot == p # <<>> /\ p[1] = "/"
        ends == {i \in 2..Len(p) : /\ p[i] = "/"
                                   /\ \E j \in (i + 1)..Len(p) : p[j] # "/"}
        end == CHOOSE i \in ends : \A j \in ends : j <= i
    IN  IF ends = {} THEN (IF hasRoot THEN <<"/">> ELSE <<".">>)
        ELSE IF hasRoot /\ end = 2 THEN <<"/","/">>
        ELSE SubSeq(p, 1, end - 1)

basename(p) ==
    LET q == StripTrailingSlashes(p)
        i == LastIndexOfChar(q, "/")
    IN  IF q = <<"/">> THEN <<>> ELSE SubSeq(q, i + 1, Len(q))

\* the segments of a path with "", "." dropped and ".." applied
RECURSIVE NormalizeSegments(_, _)
NormalizeSegments(segs, acc) ==
    IF segs = <<>> THEN acc
    ELSE LET s == Head(segs)
         IN  IF s = <<>> \/ s = <<".">> THEN NormalizeSegments(Tail(segs), acc)
             ELSE IF s = <<".", ".">>
                  THEN NormalizeSegments(Tail(segs),
                          IF acc = <<>> THEN acc ELSE SubSeq(acc, 1, Len(acc) - 1))
             ELSE NormalizeSegments(Tail(segs), Append(acc, s))

\* process.cwd(): the directory the process was started in
ProcessCwd == <<"/","p">>

\* path.resolve(from, to): the arguments are taken from the right until the
\* path is absolute, and process.cwd() when neither is
resolve(from, to) ==
    LET full == IF StartsWith(to, <<"/">>) THEN to
                ELSE IF StartsWith(from, <<"/">>) THEN from \o <<"/">> \o to
                ELSE ProcessCwd \o <<"/">> \o from \o <<"/">> \o to
    IN  <<"/">> \o Join(NormalizeSegments(Split(full, "/"), <<>>), <<"/">>)

\* the number of leading segments two lists of segments share
RECURSIVE CommonPrefixLen(_, _)
CommonPrefixLen(a, b) ==
    IF a = <<>> \/ b = <<>> \/ Head(a) # Head(b) THEN 0
    ELSE 1 + CommonPrefixLen(Tail(a), Tail(b))

\* path.relative(from, to) for absolute, normalised paths
relative(from, to) ==
    LET f == NormalizeSegments(Split(from, "/"), <<>>)
        g == NormalizeSegments(Split(to, "/"), <<>>)
        n == CommonPrefixLen(f, g)
    IN  Join([i \in 1..(Len(f) - n) |-> <<".", ".">>] \o SubSeq(g, n + 1, Len(g)), <<"/">>)

(***************************************************************************)
(* Collaborators outside src/: the file system checks of ./utils, the glob *)
(* expansion of tiny-glob, removeScope.  The file system is the record     *)
(* fs = [files |-> set of absolute paths, dirs |-> set of absolute paths]. *)
(***************************************************************************)
isFile(fs, path) == path \in fs.files

isDir(fs, path) == path \in fs.dirs

\* tiny-glob/sync on a string without glob characters: the string itself when
\* it names something that exists (relative to process.cwd(): line 199
\* passes no cwd option), and
\* nothing otherwise; nothing for an absent string
glob(fs, file) ==
    IF file = <<>> THEN <<>>
    ELSE IF resolve(ProcessCwd, file) \in (fs.files \cup fs.dirs) THEN <<file>>
    ELSE <<>>

\* removeScope: name.replace(/^@.*\//, '')
removeScope(name) ==
    IF StartsWith(name, <<"@">>) /\ LastIndexOfChar(name, "/") > 0
    THEN SubSeq(name, LastIndexOfChar(name, "/") + 1, Len(name))
    ELSE name

(***************************************************************************)
(* Entry resolution: jsOrTs, getInput, getOutput, getEntries.              *)
(***************************************************************************)
jsOrTs(fs, cwd, filename) ==
    LET extension ==
            IF isFile(fs, resolve(cwd, filename \o <<".","t","s">>)) THEN <<".","t","s">>
            ELSE IF isFile(fs, resolve(cwd, filename \o <<".","t","s","x">>)) THEN <<".","t","s","x">>
            ELSE <<".","j","s">>
    IN  resolve(cwd, filename \o extension)

\* lines 199-200: .map(file => glob(file)).forEach(file => input.push(...file))
RECURSIVE FlatMapGlob(_, _)
FlatMapGlob(fs, candidates) ==
    IF candidates = <<>> THEN <<>>
    ELSE glob(fs, Head(candidates)) \o FlatMapGlob(fs, Tail(candidates))

\* the manifest's source field: absent (or the empty string), or the array
\* of its files; a single string is the array of that string (line 189)
NoSource == [truthy |-> FALSE, files |-> <<>>]

SourceFiles(files) == [truthy |-> TRUE, files |-> files]

\* the candidate list getInput hands to glob: a || b || c keeps the first
\* truthy operand; entries are tested for their length, source for
\* truthiness only (an empty array is truthy and its map is the empty,
\* truthy, array), and jsOrTs always returns a non-empty path
getInputCandidates(fs, entries, cwd, source, module) ==
    IF entries # <<>> THEN entries
    ELSE IF source.truthy
         THEN [i \in 1..Len(source.files) |-> resolve(cwd, source.files[i])]
    ELSE LET srcIndex == IF isDir(fs, resolve(cwd, <<"s","r","c">>))
                         THEN jsOrTs(fs, cwd, <<"s","r","c","/","i","n","d","e","x">>)
                         ELSE <<>>
             rootIndex == jsOrTs(fs, cwd, <<"i","n","d","e","x">>)
         IN  IF srcIndex # <<>> THEN <<srcIndex>>
             ELSE IF rootIndex # <<>> THEN <<rootIndex>>
             ELSE <<module>>

\* the candidates come from what isDir and isFile answered (seen, the
\* directories and files they answered true for); glob reads the disk as it
\* is when the last of them has answered
getInput(seen, fs, entries, cwd, source, module) ==
    FlatMapGlob(fs, getInputCandidates(seen, entries, cwd, source, module))

\* main.match(/\.[a-z]+$/): a dot followed by lower-case letters up to the end
RECURSIVE TrailingLowerRun(_)
TrailingLowerRun(s) ==
    IF s # <<>> /\ IsLower(s[Len(s)])
    THEN 1 + TrailingLowerRun(SubSeq(s, 1, Len(s) - 1))
    ELSE 0

HasLowerExtension(s) ==
    LET n == TrailingLowerRun(s)
    IN  n >= 1 /\ Len(s) > n /\ s[Len(s) - n] = "."

\* line 206: resolve(cwd, output || pkgMain || 'dist')
outputMain(cwd, output, pkgMain) ==
    resolve(cwd, IF output # <<>> THEN output
                 ELSE IF pkgMain # <<>> THEN pkgMain
                 ELSE <<"d","i","s","t">>)

getOutput(fs, cwd, output, pkgMain, pkgName) ==
    LET main == outputMain(cwd, output, pkgMain)
    IN  IF ~HasLowerExtension(main) \/ isDir(fs, main)
        THEN resolve(main, removeScope(pkgName) \o <<".","j","s">>)
        ELSE main

\* filter((item, i, arr) => arr.indexOf(item) === i)
RECURSIVE Dedup(_, _)
Dedup(s, acc) ==
    IF s = <<>> THEN acc
    ELSE Dedup(Tail(s),
               IF \E i \in 1..Len(acc) : acc[i] = Head(s) THEN acc ELSE Append(acc, Head(s)))

\* isDirAnswers[i] is what isDir answered for the i-th file of input: the
\* lookups of the files are in flight together and answered one by one
getEntries(isDirAnswers, input, cwd) ==
    LET mapped == [i \in 1..Len(input) |->
                      LET file == resolve(cwd, input[i])
                      IN  IF isDirAnswers[i] THEN resolve(file, <<"i","n","d","e","x",".","j","s">>) ELSE file]
    IN  Dedup(mapped, <<>>)

(***************************************************************************)
(* The lookups of lines 64-84, one at a time.  seen holds the answers the  *)
(* running function has received: isDir and isFile by path, and the isDir  *)
(* of getEntries by the index of the file.                                 *)
(***************************************************************************)
NoLookups == [isDir |-> <<>>, isFile |-> <<>>, entries |-> <<>>]

\* the directories and files the answers were true for
SeenFs(seen) ==
    [dirs |-> {p \in DOMAIN seen.isDir : seen.isDir[p]},
     files |-> {p \in DOMAIN seen.isFile : seen.isFile[p]}]

\* the isFile jsOrTs asks next: .ts, and .tsx when .ts is not a file
jsOrTsLookup(seen, cwd, filename) ==
    LET ts == resolve(cwd, filename \o <<".","t","s">>)
        tsx == resolve(cwd, filename \o <<".","t","s","x">>)
    IN  IF ts \notin DOMAIN seen.isFile THEN {ts}
        ELSE IF seen.isFile[ts] THEN {}
        ELSE IF tsx \notin DOMAIN seen.isFile THEN {tsx}
        ELSE {}

\* the lookup getInput waits for, if any: none with entries or a source
getInputLookup(seen, entries, cwd, source) ==
    LET src == resolve(cwd, <<"s","r","c">>)
    IN  IF entries # <<>> \/ source.truthy THEN {}
        ELSE IF src \notin DOMAIN seen.isDir THEN {[kind |-> "isDir", path |-> src]}
        ELSE {[kind |-> "isFile", path |-> p] :
                 p \in jsOrTsLookup(seen, cwd,
                                    IF seen.isDir[src] THEN <<"s","r","c","/","i","n","d","e","x">>
                                    ELSE <<"i","n","d","e","x">>)}

\* the lookup getOutput waits for: isDir(main) when main has an extension
getOutputLookup(seen, cwd, output, pkgMain) ==
    LET main == outputMain(cwd, output, pkgMain)
    IN  IF HasLowerExtension(main) /\ main \notin DOMAIN seen.isDir
        THEN {[kind |-> "isDir", path |-> main]}
        ELSE {}

\* the lookups getEntries waits for: one isDir per file, in flight together
getEntriesLookups(seen, input, cwd) ==
    {[kind |-> "entry", index |-> i, path |-> resolve(cwd, input[i])] :
        i \in {j \in 1..Len(input) : j \notin DOMAIN seen.entries}}

\* a function with one more argument
Answered(f, key, value) ==
    [k \in (DOMAIN f) \cup {key} |-> IF k = key THEN value ELSE f[k]]

\* the answer the disk gives to a lookup, added to seen
withAnswer(seen, fs, lookup) ==
    IF lookup.kind = "isDir"
    THEN [seen EXCEPT !.isDir = Answered(seen.isDir, lookup.path, isDir(fs, lookup.path))]
    ELSE IF lookup.kind = "isFile"
    THEN [seen EXCEPT !.isFile = Answered(seen.isFile, lookup.path, isFile(fs, lookup.path))]
    ELSE [seen EXCEPT !.entries = Answered(seen.entries, lookup.index, isDir(fs, lookup.path))]

(***************************************************************************)
(* Plain objects used as maps ({} in the source): a function from the own  *)
(* keys to their values.  A key that is not an own key reads as the member *)
(* of Object.prototype of that name when there is one, and as undefined    *)
(* (the empty string) otherwise; assigning a string to __proto__ goes to    *)
(* the setter of Object.prototype, which ignores it.                       *)
(***************************************************************************)
ObjectPrototypeKeys ==
    {<<"c","o","n","s","t","r","u","c","t","o","r">>, <<"t","o","S","t","r","i","n","g">>, <<"t","o","L","o","c","a","l","e","S","t","r","i","n","g">>, <<"v","a","l","u","e","O","f">>, <<"h","a","s","O","w","n","P","r","o","p","e","r","t","y">>,
     <<"i","s","P","r","o","t","o","t","y","p","e","O","f">>, <<"p","r","o","p","e","r","t","y","I","s","E","n","u","m","e","r","a","b","l","e">>, <<"_","_","p","r","o","t","o","_","_">>, <<"_","_","d","e","f","i","n","e","G","e","t","t","e","r","_","_">>,
     <<"_","_","d","e","f","i","n","e","S","e","t","t","e","r","_","_">>, <<"_","_","l","o","o","k","u","p","G","e","t","t","e","r","_","_">>, <<"_","_","l","o","o","k","u","p","S","e","t","t","e","r","_","_">>}

\* the member of Object.prototype of that name: a function or an object,
\* told apart from every string by its first element
ObjectPrototypeMember(name) == <<"Object.prototype">> \o name

ObjectGet(obj, key) ==
    IF key \in DOMAIN obj THEN obj[key]
    ELSE IF key \in ObjectPrototypeKeys THEN ObjectPrototypeMember(key)
    ELSE <<>>

ObjectSet(obj, key, value) ==
    IF key = <<"_","_","p","r","o","t","o","_","_">> THEN obj
    ELSE [n \in (DOMAIN obj) \cup {key} |-> IF n = key THEN value ELSE obj[n]]

(***************************************************************************)
(* Output path planning: replaceName, getMain.                             *)
(***************************************************************************)
\* the alternatives of (mjs|[tj]sx?) and of (umd|cjs|es|m), each with its dot
ExtAlternatives == {<<".","m","j","s">>, <<".","t","s">>, <<".","t","s","x">>, <<".","j","s">>, <<".","j","s","x">>}

TagAlternatives == {<<".","u","m","d">>, <<".","c","j","s">>, <<".","e","s">>, <<".","m">>}

\* entry.match(/([\\/])index(\.(umd|cjs|es|m))?\.(mjs|[tj]sx?)$/)
MatchesIndexEntry(entry) ==
    \E sep \in {"/", "\\"}, tag \in TagAlternatives \cup {<<>>}, ext \in ExtAlternatives :
        EndsWith(entry, <<sep>> \o <<"i","n","d","e","x">> \o tag \o ext)

\* s.replace(/(\.(umd|cjs|es|m))?\.(mjs|[tj]sx?)$/, ''): the leftmost match,
\* so the format tag goes with the extension when it is there
StripTagAndExtension(s) ==
    IF \E ext \in ExtAlternatives : EndsWith(s, ext)
    THEN LET ext == CHOOSE e \in ExtAlternatives : EndsWith(s, e)
             rest == SubSeq(s, 1, Len(s) - Len(ext))
         IN  IF \E tag \in TagAlternatives : EndsWith(rest, tag)
             THEN LET tag == CHOOSE t \in TagAlternatives : EndsWith(rest, t)
                  IN  SubSeq(rest, 1, Len(rest) - Len(tag))
             ELSE rest
    ELSE s

\* s.replace(/^[^.]+/, ''): the leading run of characters other than a dot
RECURSIVE DropLeadingNonDots(_)
DropLeadingNonDots(s) ==
    IF s # <<>> /\ Head(s) # "." THEN DropLeadingNonDots(Tail(s)) ELSE s

replaceName(filename, name) ==
    resolve(dirname(filename), name \o DropLeadingNonDots(basename(filename)))

\* the template of each format: a manifest field, or the fixed default
esTemplate(pkg) ==
    IF pkg.module # <<>> /\ IndexOf(pkg.module, <<"s","r","c","/">>) = 0 THEN pkg.module
    ELSE IF pkg.jsnextMain # <<>> THEN pkg.jsnextMain
    ELSE <<"x",".","e","s","m",".","j","s">>

modernTemplate(pkg) ==
    IF pkg.syntaxEsmodules # <<>> THEN pkg.syntaxEsmodules
    ELSE IF pkg.esmodule # <<>> THEN pkg.esmodule
    ELSE <<"x",".","m","o","d","e","r","n",".","j","s">>

cjsTemplate(pkg) == IF pkg.cjsMain # <<>> THEN pkg.cjsMain ELSE <<"x",".","j","s">>

umdTemplate(pkg) == IF pkg.umdMain # <<>> THEN pkg.umdMain ELSE <<"x",".","u","m","d",".","j","s">>

\* mainsByFormat is a plain object: a format named like a member of
\* Object.prototype finds that member, any other unknown format the cjs path
getMain(options, entry, format) ==
    IF ~options.pkgMain THEN options.output
    ELSE LET name == IF MatchesIndexEntry(entry) THEN options.output ELSE entry
             mainNoExtension ==
                 StripTagAndExtension(resolve(dirname(options.output), basename(name)))
             mainsByFormat ==
                 [f \in {<<"e","s">>, <<"m","o","d","e","r","n">>, <<"c","j","s">>, <<"u","m","d">>} |->
                     replaceName(IF f = <<"e","s">> THEN esTemplate(options.pkg)
                                 ELSE IF f = <<"m","o","d","e","r","n">> THEN modernTemplate(options.pkg)
                                 ELSE IF f = <<"c","j","s">> THEN cjsTemplate(options.pkg)
                                 ELSE umdTemplate(options.pkg),
                                 mainNoExtension)]
         IN  IF ObjectGet(mainsByFormat, format) # <<>> THEN ObjectGet(mainsByFormat, format)
             ELSE mainsByFormat[<<"c","j","s">>]

(***************************************************************************)
(* The format order: formats.sort((a, b) => a === 'cjs' ? -1 : a > b ? 1   *)
(* : 0).  The comparator is not a consistent one (it answers 0 for a < b   *)
(* and -1 for cjs against cjs), so the order it produces is the one the    *)
(* engine's sorting algorithm happens to compute.  Both algorithms V8 has  *)
(* shipped for arrays this short are modelled: the binary insertion sort   *)
(* of its TimSort (Node 11 and later) and the plain insertion sort before. *)
(***************************************************************************)
\* the comparator without its cjs clause
formatCompareWithoutCjs(a, b) == IF StrGt(a, b) THEN 1 ELSE 0

formatCompare(a, b) ==
    IF a = <<"c","j","s">> THEN -1 ELSE IF StrGt(a, b) THEN 1 ELSE 0

RECURSIVE Reverse(_)
Reverse(s) == IF s = <<>> THEN <<>> ELSE Append(Reverse(Tail(s)), Head(s))

\* TimSort's CountAndMakeRun: the length of the run starting at the first
\* element; idx is the next element to look at
RECURSIVE CountRun(_, _, _)
CountRun(arr, idx, isDescending) ==
    IF idx > Len(arr) THEN idx - 1
    ELSE LET order == formatCompare(arr[idx], arr[idx - 1])
         IN  IF (isDescending /\ order >= 0) \/ (~isDescending /\ order < 0)
             THEN idx - 1
             ELSE CountRun(arr, idx + 1, isDescending)

\* the binary search of BinaryInsertionSort, on 0-based bounds
RECURSIVE InsertionPoint(_, _, _, _)
InsertionPoint(arr, pivot, left, right) ==
    IF left >= right THEN left
    ELSE LET mid == left + ((right - left) \div 2)
         IN  IF formatCompare(pivot, arr[mid + 1]) < 0
             THEN InsertionPoint(arr, pivot, left, mid)
             ELSE InsertionPoint(arr, pivot, mid + 1, right)

\* BinaryInsertionSort from the 0-based index start on
RECURSIVE BinaryInsertionSort(_, _)
BinaryInsertionSort(arr, start) ==
    IF start >= Len(arr) THEN arr
    ELSE LET pivot == arr[start + 1]
             left == InsertionPoint(arr, pivot, 0, start)
             moved == SubSeq(arr, 1, left) \o <<pivot>>
                      \o SubSeq(arr, left + 1, start)
                      \o SubSeq(arr, start + 2, Len(arr))
         IN  BinaryInsertionSort(moved, start + 1)

TimSort(arr) ==
    IF Len(arr) < 2 THEN arr
    ELSE LET isDescending == formatCompare(arr[2], arr[1]) < 0
             runLength == CountRun(arr, 3, isDescending)
             withRun == IF isDescending
                        THEN Reverse(SubSeq(arr, 1, runLength))
                             \o SubSeq(arr, runLength + 1, Len(arr))
                        ELSE arr
         IN  BinaryInsertionSort(withRun, runLength)

\* the inner loop of the older InsertionSort: element moves left past every
\* a[j] with comparefn(a[j], element) > 0; j is 1-based
RECURSIVE SinkLeft(_, _, _)
SinkLeft(arr, element, j) ==
    IF j >= 1 /\ formatCompare(arr[j], element) > 0
    THEN SinkLeft([arr EXCEPT ![j + 1] = arr[j]], element, j - 1)
    ELSE [arr EXCEPT ![j + 1] = element]

RECURSIVE InsertionSort(_, _)
InsertionSort(arr, i) ==
    IF i > Len(arr) THEN arr
    ELSE InsertionSort(SinkLeft(arr, arr[i], i - 1), i + 1)

sortFormats(impl, arr) ==
    IF impl = "timsort" THEN TimSort(arr) ELSE InsertionSort(arr, 2)

(***************************************************************************)
(* Option parsing of ./lib/option-normalization (outside src/): a mapping  *)
(* argument is a comma-separated list of key=value pairs; the externals    *)
(* are the manifest's peerDependencies and dependencies keys followed by   *)
(* the user's, each a literal or a regular expression.  An external is the *)
(* record [kind |-> "literal" or "regexp", source |-> string].             *)
(***************************************************************************)
Literal(s) == [kind |-> "literal", source |-> s]

Pattern(s) == [kind |-> "regexp", source |-> s]

parseMappingArgument(str) ==
    LET pairs == Split(str, ",")
    IN  [i \in 1..Len(pairs) |->
            LET eq == IndexOf(pairs[i], <<"=">>)
            IN  IF eq = 0 THEN [key |-> pairs[i], value |-> <<>>]
                ELSE [key |-> SubSeq(pairs[i], 1, eq - 1),
                      value |-> SubSeq(pairs[i], eq + 1, Len(pairs[i]))]]

parseAliasArgument(str) ==
    LET pairs == parseMappingArgument(str)
    IN  [i \in 1..Len(pairs) |-> [find |-> pairs[i].key, replacement |-> pairs[i].value]]

parseExternals(external, peerDependencies, dependencies) ==
    [i \in 1..Len(peerDependencies) |-> Literal(peerDependencies[i])]
    \o [i \in 1..Len(dependencies) |-> Literal(dependencies[i])]
    \o external

(***************************************************************************)
(* The externals predicate of getConfigInput.                              *)
(***************************************************************************)
\* the characters escape-string-regexp puts a backslash before
RegExpSpecials == {"|", "\\", "{", "}", "(", ")", "[", "]", "^", "$", "+", "*", "?", "."}

\* the releases of escape-string-regexp differ in one step: up to 3.x a "-"
\* is left alone, from 4.0.0 on it becomes \x2d.  The source imports the
\* package without naming a release.
EscapeVersions == {"1.0.5", "4.0.0"}

RECURSIVE escapeStringRegexp(_, _)
escapeStringRegexp(version, s) ==
    IF s = <<>> THEN <<>>
    ELSE (IF Head(s) \in RegExpSpecials THEN <<"\\", Head(s)>>
          ELSE IF Head(s) = "-" /\ version = "4.0.0" THEN <<"\\","x","2","d">>
          ELSE <<Head(s)>>) \o escapeStringRegexp(version, Tail(s))

escapeStringExternals(version, ext) ==
    IF ext.kind = "regexp" THEN ext.source ELSE escapeStringRegexp(version, ext.source)

\* ['dns', 'fs', 'path', 'url'].concat(options.entries).concat(parseExternals(...))
externalList(options) ==
    <<Literal(<<"d","n","s">>), Literal(<<"f","s">>), Literal(<<"p","a","t","h">>), Literal(<<"u","r","l">>)>>
    \o [i \in 1..Len(options.entries) |-> Literal(options.entries[i])]
    \o parseExternals(options.external, options.pkg.peerDependencies,
                      options.pkg.dependencies)

\* the expression without its ($|/) boundary
externalPredicateSourceUnanchored(version, external) ==
    <<"^","(">>
    \o Join([i \in 1..Len(external) |-> escapeStringExternals(version, external[i])], <<"|">>)
    \o <<")">>

\* the source of new RegExp(`^(${...join('|')})($|/)`)
externalPredicateSource(version, external) ==
    <<"^","(">>
    \o Join([i \in 1..Len(external) |-> escapeStringExternals(version, external[i])], <<"|">>)
    \o <<")","(","$","|","/",")">>

(***************************************************************************)
(* RegExp.prototype.test for the expressions the predicate is built from:  *)
(* ^(alt|alt|...) followed by ($|/) or by nothing.  An alternative is a    *)
(* sequence of literal characters, dots, the class escapes \d \D \w \W \s  *)
(* \S, the control escapes \t \n \r \f \v \cX, \xHH and \uHHHH, the        *)
(* assertions \b and \B, and identity escapes.  Quantifiers, character     *)
(* classes, groups, anchors and decimal escapes inside an alternative are  *)
(* not covered; the ids are strings of tab, line feed, carriage return and *)
(* printable ASCII characters.                                             *)
(***************************************************************************)
\* the index of the first unescaped occurrence of c in s from i on, 0 if none
RECURSIVE UnescapedIndex(_, _, _)
UnescapedIndex(s, c, i) ==
    IF i > Len(s) THEN 0
    ELSE IF s[i] = "\\" THEN UnescapedIndex(s, c, i + 2)
    ELSE IF s[i] = c THEN i
    ELSE UnescapedIndex(s, c, i + 1)

RECURSIVE SplitAlternation(_)
SplitAlternation(body) ==
    LET bar == UnescapedIndex(body, "|", 1)
    IN  IF bar = 0 THEN <<body>>
        ELSE <<SubSeq(body, 1, bar - 1)>> \o SplitAlternation(SubSeq(body, bar + 1, Len(body)))

HexDigits == <<"0","1","2","3","4","5","6","7","8","9","a","b","c","d","e","f">>

IsHexDigit(c) == SeqIndex(HexDigits, toLowerCase(c)) > 0

HexValue(c) == SeqIndex(HexDigits, toLowerCase(c)) - 1

\* c is the character with the code unit \xHH
HexEscapeMatches(h1, h2, c) == CharCode(c) = 16 * HexValue(h1) + HexValue(h2)

\* \w of a RegExp without the i and u flags
IsRegExpWordChar(c) == IsLower(c) \/ IsUpper(c) \/ IsDigit(c) \/ c = "_"

\* \s, among the characters of the ids
IsRegExpSpace(c) == c \in {" ", "\t", "\n", "\r"}

\* the number of pattern characters the atom at the head of alt takes: an
\* \x or \u without its hex digits is the letter itself, a \c without a
\* letter is a backslash
AtomLength(alt) ==
    IF Head(alt) # "\\" \/ Len(alt) < 2 THEN 1
    ELSE IF alt[2] = "x" /\ Len(alt) >= 4 /\ IsHexDigit(alt[3]) /\ IsHexDigit(alt[4]) THEN 4
    ELSE IF alt[2] = "u" /\ Len(alt) >= 6 /\ \A k \in 3..6 : IsHexDigit(alt[k]) THEN 6
    ELSE IF alt[2] = "c" /\ Len(alt) >= 3 /\ (IsLower(alt[3]) \/ IsUpper(alt[3])) THEN 3
    ELSE IF alt[2] = "c" THEN 1
    ELSE 2

\* the atom at the head of alt is \b or \B
AtomIsAssertion(alt) == Head(alt) = "\\" /\ Len(alt) >= 2 /\ alt[2] \in {"b", "B"}

\* the atom at the head of alt matches the character c
AtomMatches(alt, c) ==
    LET n == AtomLength(alt)
    IN  IF Head(alt) = "\\" /\ n = 1 THEN c = "\\"
        ELSE IF n = 1 THEN (IF Head(alt) = "." THEN c \notin {"\n", "\r"} ELSE c = Head(alt))
        ELSE IF n = 4 THEN HexEscapeMatches(alt[3], alt[4], c)
        ELSE IF n = 6 THEN CharCode(c) = 4096 * HexValue(alt[3]) + 256 * HexValue(alt[4])
                                         + 16 * HexValue(alt[5]) + HexValue(alt[6])
        ELSE IF n = 3 THEN CharCode(c) = CharCode(alt[3]) % 32
        ELSE IF alt[2] = "d" THEN IsDigit(c)
        ELSE IF alt[2] = "D" THEN ~IsDigit(c)
        ELSE IF alt[2] = "w" THEN IsRegExpWordChar(c)
        ELSE IF alt[2] = "W" THEN ~IsRegExpWordChar(c)
        ELSE IF alt[2] = "s" THEN IsRegExpSpace(c)
        ELSE IF alt[2] = "S" THEN ~IsRegExpSpace(c)
        ELSE IF alt[2] = "t" THEN c = "\t"
        ELSE IF alt[2] = "n" THEN c = "\n"
        ELSE IF alt[2] = "r" THEN c = "\r"
        ELSE IF alt[2] \in {"f", "v", "0"} THEN FALSE
        ELSE c = alt[2]

\* id has a word boundary before its character at pos
AtWordBoundary(id, pos) ==
    LET before == pos > 1 /\ pos - 1 <= Len(id) /\ IsRegExpWordChar(id[pos - 1])
        after == pos <= Len(id) /\ IsRegExpWordChar(id[pos])
    IN  before # after

\* the position in id after the match of alt that starts at pos, 0 when alt
\* does not match there
RECURSIVE MatchFrom(_, _, _)
MatchFrom(alt, id, pos) ==
    IF alt = <<>> THEN pos
    ELSE IF AtomIsAssertion(alt)
         THEN (IF AtWordBoundary(id, pos) = (alt[2] = "b")
               THEN MatchFrom(SubSeq(alt, 3, Len(alt)), id, pos)
               ELSE 0)
    ELSE IF pos <= Len(id) /\ AtomMatches(alt, id[pos])
         THEN MatchFrom(SubSeq(alt, AtomLength(alt) + 1, Len(alt)), id, pos + 1)
    ELSE 0

\* the number of characters of id the alternative matches from its start,
\* or -1 when it does not match there
MatchAlternative(alt, id) == MatchFrom(alt, id, 1) - 1

RegExpTest(source, id) ==
    LET close == UnescapedIndex(source, ")", 3)
        alts == SplitAlternation(SubSeq(source, 3, close - 1))
        tail == SubSeq(source, close + 1, Len(source))
    IN  \E i \in 1..Len(alts) :
            LET n == MatchAlternative(alts[i], id)
            IN  /\ n >= 0
                /\ \/ tail = <<>>
                   \/ tail = <<"(","$","|","/",")">> /\ (n = Len(id) \/ id[n + 1] = "/")

externalTest(version, external, id) ==
    IF Len(external) = 0 THEN FALSE
    ELSE RegExpTest(externalPredicateSource(version, external), id)

AsyncHelperId == <<"b","a","b","e","l","-","p","l","u","g","i","n","-","t","r","a","n","s","f","o","r","m","-","a","s","y","n","c","-","t","o","-","p","r","o","m","i","s","e","s","/","h","e","l","p","e","r","s">>

\* moduleAliases.map(alias => alias.find)
aliasIds(options) ==
    LET moduleAliases == IF options.alias # <<>> THEN parseAliasArgument(options.alias)
                         ELSE <<>>
    IN  {moduleAliases[i].find : i \in 1..Len(moduleAliases)}

\* config.external of getConfigInput
isExternal(version, options, id) ==
    IF id = AsyncHelperId THEN FALSE
    ELSE IF options.multipleEntries /\ id = <<".">> THEN TRUE
    ELSE IF id \in aliasIds(options) THEN FALSE
    ELSE externalTest(version, externalList(options), id)

(***************************************************************************)
(* The shebang cache: const shebang = {} and the transform hook.           *)
(***************************************************************************)
\* shebang[options.name], read by the banner getter
CacheGet(cache, name) == ObjectGet(cache, name)

\* shebang[options.name] = bang
CachePut(cache, name, value) == ObjectSet(cache, name, value)

\* the match of /^#![^\n]*/, or the empty string when there is none
shebangMatch(code) ==
    IF StartsWith(code, <<"#","!">>)
    THEN LET nl == IndexOf(code, <<"\n">>)
         IN  IF nl = 0 THEN code ELSE SubSeq(code, 1, nl - 1)
    ELSE <<>>

\* what the replacer function of the transform hook evaluates to: it has no
\* return statement, and String.prototype.replace puts String(undefined) in
\* the place of the match
shebangReplacement(bang) == <<"u","n","d","e","f","i","n","e","d">>

\* code.replace(/^#![^\n]*/, bang => { shebang[options.name] = bang; })
transformCode(code) ==
    LET bang == shebangMatch(code)
    IN  IF bang = <<>> THEN code
        ELSE shebangReplacement(bang) \o SubSeq(code, Len(bang) + 1, Len(code))

transformCache(cache, name, code) ==
    LET bang == shebangMatch(code)
    IN  IF bang = <<>> THEN cache ELSE CachePut(cache, name, bang)

(***************************************************************************)
(* getConfigInput and getConfigOutput.                                     *)
(***************************************************************************)
\* the key of an entry in config.input
inputName(options, entry) ==
    RemoveFirst(basename(getMain(options, entry, <<"c","j","s">>)), <<".","j","s">>)

\* options.entries.reduce((acc, entry) => { acc[key] = entry; return acc }, {})
RECURSIVE inputMap(_, _)
inputMap(options, n) ==
    IF n = 0 THEN <<>>
    ELSE LET acc == inputMap(options, n - 1)
             key == inputName(options, options.entries[n])
         IN  ObjectSet(acc, key, options.entries[n])

getConfigInput(options) ==
    [input |-> inputMap(options, Len(options.entries)),
     external |-> externalList(options),
     treeshake |-> [propertyReadSideEffects |-> FALSE]]

\* the banner is a getter: cache is the shebang cache at the time it is read
getConfigOutput(options, format, writeMeta, cache) ==
    LET isModern == format = <<"m","o","d","e","r","n">>
        absMain == resolve(options.cwd, getMain(options, options.entries[1], format))
        outputDir == dirname(absMain)
    IN  [paths |-> IF options.multipleEntries
                   THEN <<[from |-> <<".">>, to |-> <<".","/">> \o basename(options.output)]>>
                   ELSE <<>>,
         strict |-> options.strict = TRUE,
         freeze |-> FALSE,
         esModule |-> FALSE,
         sourcemap |-> options.sourcemap,
         banner |-> CacheGet(cache, options.name),
         format |-> IF isModern THEN <<"e","s">> ELSE format,
         name |-> options.name,
         dir |-> outputDir,
         entryFileNames |-> <<"[","n","a","m","e","]",".","j","s">>]

(***************************************************************************)
(* The bundling engine (rollup), at its interface: the file it writes for  *)
(* an input key under an output configuration.                             *)
(***************************************************************************)
emittedFileName(pattern, name) ==
    LET i == IndexOf(pattern, <<"[","n","a","m","e","]">>)
    IN  IF i = 0 THEN pattern
        ELSE SubSeq(pattern, 1, i - 1) \o name \o SubSeq(pattern, i + 6, Len(pattern))

emittedPath(config, name) == resolve(config.dir, emittedFileName(config.entryFileNames, name))

(***************************************************************************)
(* createConfig's globals (the per-entry configuration builder).           *)
(***************************************************************************)
IsWordChar(c) == IsLower(c) \/ IsUpper(c) \/ IsDigit(c) \/ c = "_"

IsCaseSeparator(c) == c \in {"_", ".", "-", " "}

RECURSIVE DropLeadingSeparators(_)
DropLeadingSeparators(s) ==
    IF s # <<>> /\ IsCaseSeparator(Head(s)) THEN DropLeadingSeparators(Tail(s)) ELSE s

\* .replace(/[_.\- ]+(\w|$)/g, (_, p1) => p1.toUpperCase()).  The run of
\* separators is greedy; when what follows it is neither a word character
\* nor the end, the expression gives characters back until the one after
\* the shorter run is a word character, which of the separators only "_" is
RECURSIVE UpperAfterSeparators(_)
UpperAfterSeparators(s) ==
    IF s = <<>> THEN <<>>
    ELSE IF IsCaseSeparator(Head(s))
         THEN LET rest == DropLeadingSeparators(s)
                  run == Len(s) - Len(rest)
                  shorter == {l \in 1..(run - 1) : s[l + 1] = "_"}
                  l == CHOOSE x \in shorter : \A y \in shorter : y <= x
              IN  IF rest = <<>> THEN <<>>
                  ELSE IF IsWordChar(Head(rest))
                       THEN <<toUpperCase(Head(rest))>> \o UpperAfterSeparators(Tail(rest))
                  ELSE IF shorter # {}
                       THEN <<"_">> \o UpperAfterSeparators(SubSeq(s, l + 2, Len(s)))
                  ELSE SubSeq(s, 1, run) \o <<Head(rest)>>
                       \o UpperAfterSeparators(Tail(rest))
    ELSE <<Head(s)>> \o UpperAfterSeparators(Tail(s))

\* .replace(/\d+(\w|$)/g, m => m.toUpperCase())
RECURSIVE UpperAfterDigits(_, _)
UpperAfterDigits(s, afterDigit) ==
    IF s = <<>> THEN <<>>
    ELSE IF IsDigit(Head(s)) THEN <<Head(s)>> \o UpperAfterDigits(Tail(s), TRUE)
    ELSE IF afterDigit /\ IsWordChar(Head(s))
         THEN <<toUpperCase(Head(s))>> \o UpperAfterDigits(Tail(s), FALSE)
    ELSE <<Head(s)>> \o UpperAfterDigits(Tail(s), FALSE)

\* the camelcase package on a string without upper-case letters
camelCase(s) ==
    IF Len(s) <= 1 THEN s
    ELSE UpperAfterDigits(UpperAfterSeparators(DropLeadingSeparators(s)), FALSE)

\* name.match(/^[a-z_$][a-z0-9_\-$]*$/)
LooksLikeIdentifier(s) ==
    /\ s # <<>>
    /\ IsLower(s[1]) \/ s[1] \in {"_", "$"}
    /\ \A i \in 2..Len(s) : IsLower(s[i]) \/ IsDigit(s[i]) \/ s[i] \in {"_", "-", "$"}

createConfigExternal(options, entry) ==
    <<Literal(<<"d","n","s">>), Literal(<<"f","s">>), Literal(<<"p","a","t","h">>), Literal(<<"u","r","l">>)>>
    \o [i \in 1..Len(SelectSeq(options.entries, LAMBDA e : e # entry)) |->
           Literal(SelectSeq(options.entries, LAMBDA e : e # entry)[i])]
    \o parseExternals(options.external, options.pkg.peerDependencies,
                      options.pkg.dependencies)

\* external.reduce((globals, name) => { ...; globals[name] = camelCase(name) }, {})
RECURSIVE derivedGlobals(_, _)
derivedGlobals(external, n) ==
    IF n = 0 THEN <<>>
    ELSE LET acc == derivedGlobals(external, n - 1)
             name == external[n].source
         IN  IF LooksLikeIdentifier(name) THEN ObjectSet(acc, name, camelCase(name))
             ELSE acc

\* Object.assign(globals, mapping): one assignment per entry of the mapping
RECURSIVE assignGlobals(_, _, _)
assignGlobals(globals, given, n) ==
    IF n = 0 THEN globals
    ELSE ObjectSet(assignGlobals(globals, given, n - 1), given[n].key, given[n].value)

\* the globals object of createConfig, a function from specifiers to names
createConfigGlobals(options, entry) ==
    LET external == createConfigExternal(options, entry)
        given == IF options.globals # <<>> /\ options.globals # <<"n","o","n","e">>
                 THEN parseMappingArgument(options.globals)
                 ELSE <<>>
    IN  assignGlobals(derivedGlobals(external, Len(external)), given, Len(given))

(***************************************************************************)
(* The projects and options the model runs microbundle on.                 *)
(***************************************************************************)
NoPkg ==
    [name |-> <<"p","k","g">>, main |-> <<>>, module |-> <<>>, source |-> NoSource,
     jsnextMain |-> <<>>, cjsMain |-> <<>>, umdMain |-> <<>>, esmodule |-> <<>>,
     syntaxEsmodules |-> <<>>, peerDependencies |-> <<>>, dependencies |-> <<>>]

\* {name: "pkg", main: "dist/pkg.js", module: "dist/pkg.module.js"}
PkgExample == [NoPkg EXCEPT !.main = <<"d","i","s","t","/","p","k","g",".","j","s">>, !.module = <<"d","i","s","t","/","p","k","g",".","m","o","d","u","l","e",".","j","s">>]

PkgModuleOnly == [NoPkg EXCEPT !.module = <<"l","i","b","/","m","o","d",".","j","s">>]

\* {name: "pkg", source: []}
PkgEmptySource == [NoPkg EXCEPT !.source = SourceFiles(<<>>)]

PkgScoped ==
    [NoPkg EXCEPT !.name = <<"@","s","/","k","i","t">>, !.main = <<"l","i","b">>, !.module = <<"s","r","c","/","i","n","d","e","x",".","j","s">>,
                  !.source = SourceFiles(<<<<"s","r","c","/","c","l","i",".","j","s">>>>), !.umdMain = <<"l","i","b","/","k","i","t",".","u","m","d",".","j","s">>,
                  !.peerDependencies = <<<<"l","o","d","a","s","h","-","e","s">>>>, !.dependencies = <<<<"f","o","o">>>>]

PlainCode == <<"r","u","n","(",")">>

ShebangCode == <<"#","!","/","u","s","r","/","b","i","n","/","e","n","v"," ","n","o","d","e","\n","r","u","n","(",")">>

FsSrc ==
    [dirs |-> {<<"/","p">>, <<"/","p","/","s","r","c">>, <<"/","p","/","s","r","c","/","s","u","b">>},
     files |-> {<<"/","p","/","s","r","c","/","i","n","d","e","x",".","j","s">>, <<"/","p","/","s","r","c","/","c","l","i",".","j","s">>, <<"/","p","/","s","r","c","/","s","u","b","/","i","n","d","e","x",".","j","s">>},
     code |-> [f \in {<<"/","p","/","s","r","c","/","i","n","d","e","x",".","j","s">>, <<"/","p","/","s","r","c","/","c","l","i",".","j","s">>, <<"/","p","/","s","r","c","/","s","u","b","/","i","n","d","e","x",".","j","s">>} |->
                  IF f = <<"/","p","/","s","r","c","/","c","l","i",".","j","s">> THEN ShebangCode ELSE PlainCode],
     imports |-> <<>>]

\* src/index.js imports the script src/cli.js
FsSrcImportsCli == [FsSrc EXCEPT !.imports = <<<<"/","p","/","s","r","c","/","c","l","i",".","j","s">>>>]

FsTs ==
    [dirs |-> {<<"/","p">>, <<"/","p","/","s","r","c">>},
     files |-> {<<"/","p","/","s","r","c","/","i","n","d","e","x",".","t","s">>, <<"/","p","/","s","r","c","/","i","n","d","e","x",".","t","s","x">>, <<"/","p","/","s","r","c","/","i","n","d","e","x",".","j","s">>},
     code |-> [f \in {<<"/","p","/","s","r","c","/","i","n","d","e","x",".","t","s">>, <<"/","p","/","s","r","c","/","i","n","d","e","x",".","t","s","x">>, <<"/","p","/","s","r","c","/","i","n","d","e","x",".","j","s">>} |->
                  PlainCode],
     imports |-> <<>>]

FsTsx == [FsTs EXCEPT !.files = {<<"/","p","/","s","r","c","/","i","n","d","e","x",".","t","s","x">>, <<"/","p","/","s","r","c","/","i","n","d","e","x",".","j","s">>}]

FsRootIndex ==
    [dirs |-> {<<"/","p">>},
     files |-> {<<"/","p","/","i","n","d","e","x",".","j","s">>},
     code |-> [f \in {<<"/","p","/","i","n","d","e","x",".","j","s">>} |-> ShebangCode],
     imports |-> <<>>]

\* no src/index.*, no index.*: only the file the manifest's module names
FsModuleOnly ==
    [dirs |-> {<<"/","p">>, <<"/","p","/","l","i","b">>},
     files |-> {<<"/","p","/","l","i","b","/","m","o","d",".","j","s">>},
     code |-> [f \in {<<"/","p","/","l","i","b","/","m","o","d",".","j","s">>} |-> PlainCode],
     imports |-> <<>>]

\* a src directory without an index file, and an index.js at the root
FsSrcWithoutIndex ==
    [dirs |-> {<<"/","p">>, <<"/","p","/","s","r","c">>},
     files |-> {<<"/","p","/","s","r","c","/","c","l","i",".","j","s">>, <<"/","p","/","i","n","d","e","x",".","j","s">>},
     code |-> [f \in {<<"/","p","/","s","r","c","/","c","l","i",".","j","s">>, <<"/","p","/","i","n","d","e","x",".","j","s">>} |->
                  IF f = <<"/","p","/","s","r","c","/","c","l","i",".","j","s">> THEN ShebangCode ELSE PlainCode],
     imports |-> <<>>]

Scenario(pkg, fs, entries, pkgMain) ==
    [pkg |-> pkg, fs |-> fs, entries |-> entries, pkgMain |-> pkgMain, cwd |-> <<".">>,
     output |-> <<>>, external |-> <<>>, globals |-> <<>>, alias |-> <<>>]

Scenarios ==
    { Scenario(PkgExample, FsSrc, <<>>, TRUE),
      Scenario(PkgExample, FsSrc, <<<<"s","r","c","/","c","l","i",".","j","s">>>>, TRUE),
      Scenario(PkgExample, FsSrc, <<<<"s","r","c","/","i","n","d","e","x",".","j","s">>, <<"s","r","c","/","c","l","i",".","j","s">>>>, TRUE),
      Scenario(PkgExample, FsSrc, <<<<"s","r","c","/","i","n","d","e","x",".","j","s">>, <<"s","r","c","/","s","u","b","/","i","n","d","e","x",".","j","s">>>>, TRUE),
      Scenario(PkgExample, FsSrc, <<<<"s","r","c","/","s","u","b">>, <<"s","r","c","/","s","u","b","/","i","n","d","e","x",".","j","s">>>>, FALSE),
      Scenario(PkgExample, FsSrc, <<<<"s","r","c","/","s","u","b">>, <<"s","r","c">>>>, TRUE),
      [Scenario(NoPkg, FsSrc, <<<<"i","n","d","e","x",".","j","s">>>>, TRUE) EXCEPT !.cwd = <<"s","r","c">>],
      [Scenario(NoPkg, FsSrc, <<<<"s","r","c","/","i","n","d","e","x",".","j","s">>>>, TRUE) EXCEPT !.cwd = <<"s","r","c">>],
      [Scenario(NoPkg, FsSrc, <<>>, TRUE) EXCEPT !.cwd = <<"s","r","c">>],
      Scenario(PkgExample, FsSrcImportsCli, <<>>, TRUE),
      Scenario(NoPkg, FsTs, <<>>, TRUE),
      Scenario(NoPkg, FsTsx, <<>>, FALSE),
      Scenario(NoPkg, FsRootIndex, <<>>, TRUE),
      Scenario(NoPkg, FsSrcWithoutIndex, <<>>, TRUE),
      Scenario(PkgModuleOnly, FsModuleOnly, <<>>, TRUE),
      Scenario(PkgEmptySource, FsSrc, <<>>, TRUE),
      [Scenario(PkgScoped, FsSrc, <<>>, TRUE) EXCEPT
          !.external = <<Literal(<<"r","e","a","c","t">>)>>, !.globals = <<"l","o","d","a","s","h","-","e","s","=","_",",","r","e","a","c","t","=","R","e","a","c","t">>],
      [Scenario(PkgScoped, FsSrc, <<>>, TRUE) EXCEPT !.output = <<"b","u","i","l","d","/","o","u","t",".","j","s">>] }

FormatNames == {<<"c","j","s">>, <<"e","s">>, <<"m","o","d","e","r","n">>, <<"u","m","d">>}

\* --format is any string: lists that name a member of Object.prototype
\* where a format is expected
PrototypeFormatStrings == {<<"c","o","n","s","t","r","u","c","t","o","r">>, <<"c","j","s",",","c","o","n","s","t","r","u","c","t","o","r">>, <<"_","_","p","r","o","t","o","_","_",",","e","s">>}

\* every list of 1..n format names, joined with commas
FormatLists(n) == {Join(l, <<",">>) : l \in UNION {[1..k -> FormatNames] : k \in 1..n}}

FormatStrings == FormatLists(MaxFormats) \cup PrototypeFormatStrings

\* the calls of microbundle() that are explored, a project and its --format:
\* two projects are built with every format string, the other projects with
\* the lists of one or two formats and the prototype ones
Calls ==
    {c \in Scenarios \X FormatStrings :
        \/ c[1] \in { Scenario(PkgExample, FsSrc, <<>>, TRUE),
                       Scenario(PkgExample, FsSrc, <<<<"s","r","c","/","i","n","d","e","x",".","j","s">>, <<"s","r","c","/","c","l","i",".","j","s">>>>, TRUE) }
        \/ c[2] \in FormatLists(2) \cup PrototypeFormatStrings}

\* the options after lines 41-62: a copy of inputOptions with cwd resolved
\* (line 43), the manifest read, the name resolved and sourcemap defaulted
InitialOptions(s, format, watch) ==
    [cwd |-> resolve(ProcessCwd, s.cwd), name |-> removeScope(s.pkg.name), pkg |-> s.pkg,
     entries |-> s.entries, output |-> s.output, pkgMain |-> s.pkgMain,
     format |-> format, watch |-> watch, sourcemap |-> TRUE, strict |-> FALSE,
     external |-> s.external, globals |-> s.globals, alias |-> s.alias,
     input |-> <<>>, multipleEntries |-> FALSE]

\* lines 64-69: options.input = await getInput(...)
withInput(o, seen, fsys) ==
    [o EXCEPT !.input = getInput(seen, fsys, o.entries, o.cwd, o.pkg.source, o.pkg.module)]

\* lines 71-76: options.output = await getOutput(...)
withOutput(o, seen) ==
    [o EXCEPT !.output = getOutput(seen, o.cwd, o.output, o.pkg.main, o.pkg.name)]

\* lines 78-84: options.entries = await getEntries(...), multipleEntries
withEntries(o, isDirAnswers) ==
    [o EXCEPT !.entries = getEntries(isDirAnswers, o.input, o.cwd), !.multipleEntries = FALSE]

\* lines 64-84 on a disk that does not change meanwhile
configure(o, fsys) ==
    LET withIn == withOutput(withInput(o, fsys, fsys), fsys)
    IN  withEntries(withIn, [i \in 1..Len(withIn.input) |->
                                isDir(fsys, resolve(withIn.cwd, withIn.input[i]))])

\* the project after a directory and everything below it is removed
withoutDir(fsys, d) ==
    LET below(p) == p = d \/ StartsWith(p, d \o <<"/">>)
        files == {f \in fsys.files : ~below(f)}
    IN  [fsys EXCEPT !.dirs = {x \in fsys.dirs : ~below(x)},
                     !.files = files,
                     !.code = [f \in files |-> fsys.code[f]]]

(***************************************************************************)
(* The state of one microbundle process.                                   *)
(***************************************************************************)
VARIABLES
    inputOptions, \* the options microbundle() was called with
    options,      \* the options object microbundle builds up
    fs,           \* the project on disk
    sortImpl,     \* the engine's Array.prototype.sort: "timsort" or "insertion"
    pc,           \* where microbundle() is
    formats,      \* the sorted list of formats
    rollupCalls,  \* the input configurations rollup() was called with
    transformed,  \* the code the transform hook returned, by module
    shebang,      \* the process-wide shebang cache
    steps,        \* the per-entry configurations handed to doWatch
    formatIndex,  \* the variable i of the write loop (1-based)
    writes,       \* the bundle.write calls: configuration, files, status
    out,          \* the files with code measured after each completed write
    result,       \* what microbundle() resolved to
    asked,        \* the engine's last call of config.external: id and answer
    builds,       \* the number of microbundle() calls this process has made
    diskChanges,  \* the number of changes of the disk since the call started
    seen,         \* the answers of isDir and isFile the running function has
    writeOutput   \* the output the last bundle.write resolved to, until it is measured

vars == <<inputOptions, options, fs, sortImpl, pc, formats, rollupCalls, transformed,
          shebang, steps, formatIndex, writes, out, result, asked, builds, diskChanges, seen,
          writeOutput>>

NoResult == [kind |-> "none"]

Init ==
    /\ \E c \in Calls, w \in BOOLEAN :
          /\ inputOptions = InitialOptions(c[1], c[2], w)
          /\ fs = c[1].fs
    /\ options = inputOptions
    /\ sortImpl \in {"timsort", "insertion"}
    /\ pc = "start"
    /\ formats = <<>>
    /\ rollupCalls = <<>>
    /\ transformed = <<>>
    /\ shebang = <<>>
    /\ steps = <<>>
    /\ formatIndex = 1
    /\ writes = <<>>
    /\ out = <<>>
    /\ result = NoResult
    /\ asked = <<>>
    /\ builds = 1
    /\ diskChanges = 0
    /\ seen = NoLookups
    /\ writeOutput = {}

\* the lookups the call waits for at its three awaits of lines 64-78
PendingLookups ==
    IF pc = "start"
    THEN getInputLookup(seen, options.entries, options.cwd, options.pkg.source)
    ELSE IF pc = "input"
    THEN getOutputLookup(seen, options.cwd, options.output, options.pkg.main)
    ELSE IF pc = "output" THEN getEntriesLookups(seen, options.input, options.cwd)
    ELSE {}

\* isDir or isFile answers one lookup from the disk as it is now
Lookup ==
    /\ \E l \in PendingLookups : seen' = withAnswer(seen, fs, l)
    /\ UNCHANGED <<inputOptions, options, fs, sortImpl, pc, formats, rollupCalls, transformed,
                   shebang, steps, formatIndex, writes, out, result, asked, builds, writeOutput,
                   diskChanges>>

\* lines 64-69: getInput has its answers, expands the candidates and returns
GetInput ==
    /\ pc = "start"
    /\ PendingLookups = {}
    /\ options' = withInput(options, SeenFs(seen), fs)
    /\ seen' = NoLookups
    /\ pc' = "input"
    /\ UNCHANGED <<inputOptions, fs, sortImpl, formats, rollupCalls, transformed, shebang, steps,
                   formatIndex, writes, out, result, asked, builds, writeOutput, diskChanges>>

\* lines 71-76: getOutput has its answer and returns
GetOutput ==
    /\ pc = "input"
    /\ PendingLookups = {}
    /\ options' = withOutput(options, SeenFs(seen))
    /\ seen' = NoLookups
    /\ pc' = "output"
    /\ UNCHANGED <<inputOptions, fs, sortImpl, formats, rollupCalls, transformed, shebang, steps,
                   formatIndex, writes, out, result, asked, builds, writeOutput, diskChanges>>

\* lines 78-88: getEntries has all its answers; the formats are split and
\* sorted
GetEntries ==
    /\ pc = "output"
    /\ PendingLookups = {}
    /\ options' = withEntries(options, seen.entries)
    /\ formats' = sortFormats(sortImpl, Split(options.format, ","))
    /\ seen' = NoLookups
    /\ pc' = "configured"
    /\ UNCHANGED <<inputOptions, fs, sortImpl, rollupCalls, transformed, shebang, steps,
                   formatIndex, writes, out, result, asked, builds, writeOutput, diskChanges>>

\* other programs run all the while: one of them removes a directory of the
\* project
DiskChanged ==
    /\ pc \notin {"done", "failed", "watching"}
    /\ diskChanges < MaxDiskChanges
    /\ \E d \in fs.dirs \ {options.cwd} : fs' = withoutDir(fs, d)
    /\ diskChanges' = diskChanges + 1
    /\ UNCHANGED <<inputOptions, options, sortImpl, pc, formats, rollupCalls, transformed,
                   shebang, steps, formatIndex, writes, out, result, asked, builds,
                   writeOutput, seen>>

\* the modules the engine loads: the files of the config.input it was called
\* with, then what they import
modules ==
    LET input == rollupCalls[Len(rollupCalls)].input
        roots == SelectSeq(options.entries, LAMBDA e : \E k \in DOMAIN input : input[k] = e)
    IN  roots \o SelectSeq(fs.imports, LAMBDA m : \A k \in 1..Len(roots) : roots[k] # m)

\* the modules the hook has not run on yet and that the engine can be at:
\* the files of config.input in any order, then what they import
NextModules ==
    LET input == rollupCalls[Len(rollupCalls)].input
        loaded == modules
        all == {loaded[k] : k \in 1..Len(loaded)}
        roots == {input[k] : k \in DOMAIN input}
        todo == all \ DOMAIN transformed
    IN  IF todo \cap roots # {} THEN todo \cap roots ELSE todo

\* line 90: rollup(getConfigInput(options)) is called and awaited
RollupCalled ==
    /\ pc = "configured"
    /\ rollupCalls' = Append(rollupCalls, getConfigInput(options))
    /\ transformed' = <<>>
    /\ pc' = "rolling"
    /\ UNCHANGED <<inputOptions, options, fs, sortImpl, formats, shebang, steps, formatIndex,
                   writes, out, result, asked, builds, writeOutput, diskChanges, seen>>

\* lines 419-427: the engine has loaded a module and runs the transform hook
\* on its code
TransformModule ==
    /\ pc = "rolling"
    /\ \E m \in NextModules \cap fs.files :
          /\ transformed' = Answered(transformed, m, transformCode(fs.code[m]))
          /\ shebang' = transformCache(shebang, options.name, fs.code[m])
    /\ UNCHANGED <<inputOptions, options, fs, sortImpl, pc, formats, rollupCalls, steps,
                   formatIndex, writes, out, result, asked, builds, writeOutput, diskChanges, seen>>

\* line 90, the promise of rollup() resolves: every module went through
RollupBuilt ==
    /\ pc = "rolling"
    /\ DOMAIN rollupCalls[Len(rollupCalls)].input # {}
    /\ NextModules = {}
    /\ steps' = <<>>
    /\ pc' = "bundled"
    /\ UNCHANGED <<inputOptions, options, fs, sortImpl, formats, rollupCalls, transformed,
                   shebang, formatIndex, writes, out, result, asked, builds, writeOutput,
                   diskChanges, seen>>

\* line 90, the promise of rollup() rejects: the engine was given no input,
\* or the module it is at is not on the disk
RollupFailed ==
    /\ pc = "rolling"
    /\ DOMAIN rollupCalls[Len(rollupCalls)].input = {} \/ NextModules \ fs.files # {}
    /\ pc' = "failed"
    /\ result' = [kind |-> "rejected", error |-> "EngineError"]
    /\ UNCHANGED <<inputOptions, options, fs, sortImpl, formats, rollupCalls, transformed,
                   shebang, steps, formatIndex, writes, out, asked, builds, writeOutput,
                   diskChanges, seen>>

\* doWatch's steps.reduce: one watcher per step, keyed by the step's input
RECURSIVE watchersOf(_, _)
watchersOf(stepList, n) ==
    IF n = 0 THEN <<>>
    ELSE LET acc == watchersOf(stepList, n - 1)
             key == stepList[n].inputOptions.input
         IN  [k \in (DOMAIN acc) \cup {key} |->
                 IF k = key THEN [output |-> stepList[n].outputOptions,
                                  exclude |-> <<"n","o","d","e","_","m","o","d","u","l","e","s","/","*","*">>,
                                  input |-> key]
                 ELSE acc[k]]

\* lines 99-101 and doWatch
DoWatch ==
    /\ pc = "bundled"
    /\ options.watch
    /\ result' = [kind |-> "watching", watchers |-> watchersOf(steps, Len(steps))]
    /\ pc' = "watching"
    /\ UNCHANGED <<inputOptions, options, fs, sortImpl, formats, rollupCalls, transformed, shebang,
                   steps, formatIndex, writes, out, asked, builds, writeOutput, diskChanges, seen>>

\* the value is a member of Object.prototype, not a string
IsPrototypeMember(v) == v # <<>> /\ v[1] = "Object.prototype"

\* lines 104-107: bundle.write(getConfigOutput(options, formats[i], i === 0)).
\* When getMain does not give a string, path.resolve throws in
\* getConfigOutput (line 440) and microbundle() rejects
WriteStart ==
    /\ pc = "bundled"
    /\ ~options.watch
    /\ formatIndex <= Len(formats)
    /\ IF IsPrototypeMember(getMain(options, options.entries[1], formats[formatIndex]))
       THEN /\ pc' = "failed"
            /\ result' = [kind |-> "rejected", error |-> "TypeError"]
            /\ UNCHANGED writes
       ELSE /\ LET config == getConfigOutput(options, formats[formatIndex], formatIndex = 1,
                                             shebang)
                   input == rollupCalls[Len(rollupCalls)].input
               IN  writes' = Append(writes,
                                [requested |-> formats[formatIndex],
                                 config |-> config,
                                 files |-> {[entry |-> input[k], name |-> k,
                                             path |-> emittedPath(config, k)] :
                                               k \in DOMAIN input},
                                 status |-> "writing"])
            /\ pc' = "writing"
            /\ UNCHANGED result
    /\ UNCHANGED <<inputOptions, options, fs, sortImpl, formats, rollupCalls, transformed, shebang,
                   steps, formatIndex, out, asked, builds, writeOutput, diskChanges, seen>>

\* lines 105-107: the write resolved. Its output holds a chunk with code for
\* every key of the input and, when a plugin emitted one, an asset, which
\* has no code
WriteDone ==
    /\ pc = "writing"
    /\ writes' = [writes EXCEPT ![Len(writes)].status = "written"]
    /\ LET w == writes[Len(writes)]
           chunks == {[fileName |-> emittedFileName(w.config.entryFileNames, f.name),
                       code |-> TRUE] : f \in w.files}
           asset == [fileName |-> options.name \o <<".","c","s","s">>, code |-> FALSE]
       IN  writeOutput' \in {chunks, chunks \cup {asset}}
    /\ pc' = "measuring"
    /\ UNCHANGED <<inputOptions, options, fs, sortImpl, formats, rollupCalls, transformed, shebang,
                   steps, formatIndex, out, result, asked, builds, diskChanges, seen>>

\* lines 109-118: getSizeInfo has answered for every file that has code;
\* out.push of the answers, i++
SizesMeasured ==
    /\ pc = "measuring"
    /\ out' = Append(out, {o.fileName : o \in {x \in writeOutput : x.code}})
    /\ writeOutput' = {}
    /\ formatIndex' = formatIndex + 1
    /\ pc' = "bundled"
    /\ UNCHANGED <<inputOptions, options, fs, sortImpl, formats, rollupCalls, transformed, shebang,
                   steps, writes, result, asked, builds, diskChanges, seen>>

\* lines 109-117: getSizeInfo rejected for a file that has code, so
\* Promise.all and then microbundle() reject; the write stays done
SizesFailed ==
    /\ pc = "measuring"
    /\ \E o \in writeOutput : o.code
    /\ pc' = "failed"
    /\ result' = [kind |-> "rejected", error |-> "SizeError"]
    /\ UNCHANGED <<inputOptions, options, fs, sortImpl, formats, rollupCalls, transformed, shebang,
                   steps, formatIndex, writes, out, asked, builds, diskChanges, seen, writeOutput>>

\* the write rejected: microbundle() rejects with the engine's error
WriteFailed ==
    /\ pc = "writing"
    /\ writes' = [writes EXCEPT ![Len(writes)].status = "failed"]
    /\ pc' = "failed"
    /\ result' = [kind |-> "rejected", error |-> "EngineError"]
    /\ UNCHANGED <<inputOptions, options, fs, sortImpl, formats, rollupCalls, transformed, shebang,
                   steps, formatIndex, out, asked, builds, writeOutput, diskChanges, seen>>

\* lines 121-125
Finish ==
    /\ pc = "bundled"
    /\ ~options.watch
    /\ formatIndex > Len(formats)
    /\ result' = [kind |-> "built", name |-> options.name,
                  targetDir |-> IF relative(options.cwd, dirname(options.output)) = <<>>
                                THEN <<".">>
                                ELSE relative(options.cwd, dirname(options.output)),
                  out |-> out]
    /\ pc' = "done"
    /\ UNCHANGED <<inputOptions, options, fs, sortImpl, formats, rollupCalls, transformed, shebang,
                   steps, formatIndex, writes, out, asked, builds, writeOutput, diskChanges, seen>>

Next ==
    \/ Lookup
    \/ GetInput
    \/ GetOutput
    \/ GetEntries
    \/ DiskChanged
    \/ RollupCalled
    \/ TransformModule
    \/ RollupBuilt
    \/ RollupFailed
    \/ DoWatch
    \/ WriteStart
    \/ WriteDone
    \/ SizesMeasured
    \/ SizesFailed
    \/ WriteFailed
    \/ Finish

Spec == Init /\ [][Next]_vars

(***************************************************************************)
(* The externals predicate on its own: the engine asks config.external     *)
(* about module ids while it resolves the imports of a configured build.   *)
(***************************************************************************)
IdChars == {"f", "o", "b", "/", "."}

ModuleIds == UNION {[1..n -> IdChars] : n \in 1..MaxIdLen}

ExternalScenarios ==
    { [Scenario(NoPkg, FsSrc, <<>>, TRUE) EXCEPT !.external = <<Literal(<<"f","o">>)>>],
      [Scenario(NoPkg, FsSrc, <<>>, TRUE) EXCEPT !.external = <<Literal(<<"f",".","o">>)>>],
      [Scenario(NoPkg, FsSrc, <<>>, TRUE) EXCEPT
          !.external = <<Literal(<<"f">>), Literal(<<"o","/","b">>)>>],
      [Scenario(NoPkg, FsSrc, <<>>, TRUE) EXCEPT
          !.external = <<Literal(<<"f","o">>), Pattern(<<"f",".","b">>)>>],
      [Scenario(NoPkg, FsSrc, <<>>, TRUE) EXCEPT
          !.external = <<Literal(<<"f","o">>)>>, !.alias = <<"f","o","/","b","=",".","/","b",".","j","s">>],
      [Scenario([NoPkg EXCEPT !.peerDependencies = <<<<"b">>>>, !.dependencies = <<<<"o",".","b">>>>],
                FsSrc, <<>>, TRUE) EXCEPT !.external = <<>>] }

InitExternal ==
    /\ \E s \in ExternalScenarios :
          /\ inputOptions = InitialOptions(s, <<"c","j","s">>, FALSE)
          /\ fs = s.fs
    /\ options = configure(inputOptions, fs)
    /\ sortImpl = "timsort"
    /\ pc = "configured"
    /\ formats = <<<<"c","j","s">>>>
    /\ rollupCalls = <<>>
    /\ transformed = <<>>
    /\ shebang = <<>>
    /\ steps = <<>>
    /\ formatIndex = 1
    /\ writes = <<>>
    /\ out = <<>>
    /\ result = NoResult
    /\ asked = <<>>
    /\ builds = 1
    /\ diskChanges = 0
    /\ seen = NoLookups
    /\ writeOutput = {}

\* config.external(id), lines 331-346.  The answer is a function of the
\* options and the id alone, so one call is followed per behaviour.
ResolveExternal ==
    /\ pc = "configured"
    /\ asked = <<>>
    /\ \E version \in EscapeVersions, id \in ModuleIds \cup {AsyncHelperId} :
          asked' = <<[id |-> id, version |-> version,
                     external |-> isExternal(version, options, id)]>>
    /\ UNCHANGED <<inputOptions, options, fs, sortImpl, pc, formats, rollupCalls,
                   transformed, shebang, steps, formatIndex, writes, out, result, builds,
                   writeOutput, diskChanges, seen>>

NextExternal == ResolveExternal

SpecExternal == InitExternal /\ [][NextExternal]_vars

(***************************************************************************)
(* One process running several builds in turn: microbundle() is called     *)
(* again after a build has settled.  Every local of the call starts anew;  *)
(* the module-level shebang cache (line 290) is the one object that lives  *)
(* on from call to call.                                                   *)
(***************************************************************************)
\* {name: "tool"}: a package with another build name
PkgTool == [NoPkg EXCEPT !.name = <<"t","o","o","l">>]

\* {name: "constructor"}: a build name that Object.prototype also has
PkgConstructor == [NoPkg EXCEPT !.name = <<"c","o","n","s","t","r","u","c","t","o","r">>]

\* the same layout as FsRootIndex, its index.js without a #! line
FsRootPlain == [FsRootIndex EXCEPT !.code = [f \in {<<"/","p","/","i","n","d","e","x",".","j","s">>} |-> PlainCode]]

ProcessScenarios ==
    { Scenario(NoPkg, FsRootIndex, <<>>, TRUE),
      Scenario(NoPkg, FsRootPlain, <<>>, TRUE),
      Scenario(PkgTool, FsRootPlain, <<>>, TRUE),
      Scenario(PkgConstructor, FsRootPlain, <<>>, TRUE),
      Scenario(PkgTool, FsSrc, <<<<"s","r","c","/","c","l","i",".","j","s">>>>, TRUE),
      Scenario(NoPkg, FsSrc, <<<<"s","r","c","/","i","n","d","e","x",".","j","s">>, <<"s","r","c","/","c","l","i",".","j","s">>>>, TRUE),
      Scenario(NoPkg, FsSrcImportsCli, <<>>, TRUE) }

ProcessFormats == {<<"c","j","s">>, <<"e","s",",","c","j","s">>}

InitProcess ==
    /\ \E s \in ProcessScenarios, f \in ProcessFormats, w \in BOOLEAN :
          /\ inputOptions = InitialOptions(s, f, w)
          /\ fs = s.fs
    /\ options = inputOptions
    /\ sortImpl \in {"timsort", "insertion"}
    /\ pc = "start"
    /\ formats = <<>>
    /\ rollupCalls = <<>>
    /\ transformed = <<>>
    /\ shebang = <<>>
    /\ steps = <<>>
    /\ formatIndex = 1
    /\ writes = <<>>
    /\ out = <<>>
    /\ result = NoResult
    /\ asked = <<>>
    /\ builds = 1
    /\ diskChanges = 0
    /\ seen = NoLookups
    /\ writeOutput = {}

\* lines 40-62 once more: the caller's promise has settled (or, in watch
\* mode, resolved to the watchers) and it calls microbundle() again
NextBuild ==
    /\ pc \in {"done", "failed", "watching"}
    /\ builds < MaxBuilds
    /\ \E s \in ProcessScenarios, f \in ProcessFormats, w \in BOOLEAN :
          /\ inputOptions' = InitialOptions(s, f, w)
          /\ fs' = s.fs
    /\ options' = inputOptions'
    /\ pc' = "start"
    /\ formats' = <<>>
    /\ rollupCalls' = <<>>
    /\ transformed' = <<>>
    /\ steps' = <<>>
    /\ formatIndex' = 1
    /\ writes' = <<>>
    /\ out' = <<>>
    /\ result' = NoResult
    /\ builds' = builds + 1
    /\ diskChanges' = 0
    /\ seen' = NoLookups
    /\ writeOutput' = {}
    /\ UNCHANGED <<sortImpl, shebang, asked>>

\* lines 289-290 and 419-427: the process has other calls of microbundle()
\* in flight; the cache is module state, the one thing the calls share. While
\* this call waits, the hook of another call runs on a module of a package
\* of some name
ConcurrentTransform ==
    /\ pc \in {"start", "input", "output", "rolling", "writing", "measuring"}
    /\ \E s \in ProcessScenarios :
          \E m \in s.fs.files :
              shebang' = transformCache(shebang, removeScope(s.pkg.name), s.fs.code[m])
    /\ shebang' # shebang
    /\ UNCHANGED <<inputOptions, options, fs, sortImpl, pc, formats, rollupCalls, transformed,
                   steps, formatIndex, writes, out, result, asked, builds, writeOutput,
                   diskChanges, seen>>

NextProcess ==
    \/ Next
    \/ NextBuild
    \/ ConcurrentTransform

SpecProcess == InitProcess /\ [][NextProcess]_vars

(***************************************************************************)
(* Properties of the one-shot build and of watch mode.                     *)
(***************************************************************************)
RequestedFormats == Split(inputOptions.format, ",")

\* C1: within one invocation no two distinct (entry, format) pairs are
\* emitted to the same absolute output path.
C1_NoTwoPairsShareAPath ==
    \A k1, k2 \in 1..Len(writes) :
        \A f1 \in writes[k1].files, f2 \in writes[k2].files :
            (f1.entry # f2.entry \/ writes[k1].requested # writes[k2].requested)
                => f1.path # f2.path

\* the number of completed cjs writes among the first n writes
RECURSIVE CjsWritten(_)
CjsWritten(n) ==
    IF n = 0 THEN 0
    ELSE CjsWritten(n - 1)
         + (IF writes[n].requested = <<"c","j","s">> /\ writes[n].status = "written" THEN 1 ELSE 0)

\* C2: when cjs is requested, every cjs write has been started and has
\* completed before the write of any other format is started, whatever the
\* order the formats were given in.
C2_CjsWrittenFirst ==
    \A k \in 1..Len(writes) :
        writes[k].requested # <<"c","j","s">>
            => CjsWritten(k - 1)
                 = Cardinality({j \in 1..Len(RequestedFormats) : RequestedFormats[j] = <<"c","j","s">>})

\* a format other than cjs is being written although cjs was not given first
C2_Witness ==
    /\ Len(RequestedFormats) >= 2
    /\ RequestedFormats[1] # <<"c","j","s">>
    /\ \E j \in 2..Len(RequestedFormats) : RequestedFormats[j] = <<"c","j","s">>
    /\ \E k \in 1..Len(writes) : writes[k].requested # <<"c","j","s">> /\ writes[k].status = "written"

\* C3: the file the engine is asked to emit for an entry is the path the
\* output path planner (getMain) computes for that entry and format; for the
\* manifest {name: pkg, main: dist/pkg.js, module: dist/pkg.module.js} with
\* entry src/index.js, cjs goes to dist/pkg.js and es to dist/pkg.module.js.
C3_EmittedAtPlannedPath ==
    \A k \in 1..Len(writes) : \A f \in writes[k].files :
        /\ f.path = resolve(options.cwd, getMain(options, f.entry, writes[k].requested))
        /\ (options.pkg = PkgExample /\ f.entry = <<"/","p","/","s","r","c","/","i","n","d","e","x",".","j","s">> /\ options.pkgMain)
              => /\ writes[k].requested = <<"c","j","s">> => f.path = <<"/","p","/","d","i","s","t","/","p","k","g",".","j","s">>
                 /\ writes[k].requested = <<"e","s">> => f.path = <<"/","p","/","d","i","s","t","/","p","k","g",".","m","o","d","u","l","e",".","j","s">>

\* C4: when no entry file is found, microbundle fails with NoEntryFound
\* before the engine is invoked and before any format is written.
C4_NoEntryFoundBeforeEngine ==
    (pc \notin {"start", "input", "output"} /\ options.entries = <<>>)
        => /\ rollupCalls = <<>>
           /\ writes = <<>>
           /\ pc \in {"failed", "done", "watching"}
                 => result = [kind |-> "rejected", error |-> "NoEntryFound"]

\* the candidates in the order the specification gives, each present or not
ClaimedCandidates ==
    LET io == inputOptions
        srcIndex == {x \in {<<"s","r","c","/","i","n","d","e","x",".","t","s">>, <<"s","r","c","/","i","n","d","e","x",".","t","s","x">>, <<"s","r","c","/","i","n","d","e","x",".","j","s">>} :
                        isFile(fs, resolve(io.cwd, x))}
        rootIndex == {x \in {<<"i","n","d","e","x",".","t","s">>, <<"i","n","d","e","x",".","t","s","x">>, <<"i","n","d","e","x",".","j","s">>} :
                         isFile(fs, resolve(io.cwd, x))}
    IN  IF io.entries # <<>> THEN io.entries
        ELSE IF io.pkg.source.files # <<>>
             THEN [j \in 1..Len(io.pkg.source.files) |->
                      resolve(io.cwd, io.pkg.source.files[j])]
        ELSE IF srcIndex # {} THEN <<jsOrTs(fs, io.cwd, <<"s","r","c","/","i","n","d","e","x">>)>>
        ELSE IF rootIndex # {} THEN <<jsOrTs(fs, io.cwd, <<"i","n","d","e","x">>)>>
        ELSE <<io.pkg.module>>

\* C5: getInput returns the expansion of the first non-empty candidate among
\* explicit entries, manifest source, src/index (.ts, .tsx, .js), root index,
\* manifest module; with none of the first four, the module field is resolved.
C5_FirstCandidateResolved ==
    (pc # "start" /\ diskChanges = 0)
        => options.input = FlatMapGlob(fs, ClaimedCandidates)

(***************************************************************************)
(* Properties of the externals predicate.                                  *)
(***************************************************************************)
\* id is the literal external e, or a path below it
LiteralMatches(e, id) == id = e \/ StartsWith(id, e \o <<"/">>)

\* what one external matches when it is the only one
MatchesAlone(ext, id) ==
    IF ext.kind = "literal" THEN LiteralMatches(ext.source, id)
    ELSE RegExpTest(<<"^","(">> \o ext.source \o <<")","(","$","|","/",")">>, id)

\* e is a proper prefix of id and no "/" follows it
ProperPrefixWithoutSlash(e, id) ==
    StartsWith(id, e) /\ Len(id) > Len(e) /\ id[Len(e) + 1] # "/"

\* C6: for every literal external e and every id that is neither an alias key
\* nor the async helper, the predicate answers true when id is e or starts
\* with e followed by "/", and false when id merely has e as a proper prefix
\* without a following "/" and matches no other external.
C6_ExternalBoundary ==
    \A q \in 1..Len(asked) :
        LET id == asked[q].id
            ext == externalList(options)
        IN  (id \notin aliasIds(options) /\ id # AsyncHelperId)
            => \A k \in 1..Len(ext) :
                  ext[k].kind = "literal"
                  => /\ LiteralMatches(ext[k].source, id) => asked[q].external
                     /\ ( /\ ProperPrefixWithoutSlash(ext[k].source, id)
                          /\ \A j \in 1..Len(ext) : ~MatchesAlone(ext[j], id) )
                        => ~asked[q].external

\* the predicate was asked about an id that only has the user's external as
\* a proper prefix, and about none that matches
C6_Witness ==
    /\ asked # <<>>
    /\ asked[1].id \notin aliasIds(options)
    /\ LET ext == externalList(options)
       IN  /\ \E k \in 1..Len(ext) :
                 /\ ext[k] \in {options.external[j] : j \in 1..Len(options.external)}
                 /\ ext[k].kind = "literal"
                 /\ ProperPrefixWithoutSlash(ext[k].source, asked[1].id)
           /\ \A j \in 1..Len(ext) : ~MatchesAlone(ext[j], asked[1].id)
    /\ ~asked[1].external

(***************************************************************************)
(* Properties of the shebang cache, watch mode, globals and write order.   *)
(***************************************************************************)
\* the source without its leading #! line, nothing put in its place
WithoutShebangLine(code) == SubSeq(code, Len(shebangMatch(code)) + 1, Len(code))

\* C7: for an entry whose source begins with a #! line, the transform step
\* hands on the source with that line removed and nothing in its place, and
\* the banner of every format's output is exactly that line.
C7_ShebangRoundTrip ==
    \A e \in {options.entries[k] : k \in 1..Len(options.entries)} :
        (/\ pc \notin {"start", "input", "output"}
         /\ e \in fs.files
         /\ StartsWith(fs.code[e], <<"#","!">>))
            => /\ e \in DOMAIN transformed
                    => transformed[e] = WithoutShebangLine(fs.code[e])
               /\ \A k \in 1..Len(writes) :
                     (\E f \in writes[k].files : f.entry = e)
                         => writes[k].config.banner = shebangMatch(fs.code[e])

\* C8: in watch mode with N resolved entries the returned handle exposes
\* exactly N watchers, one per entry.
C8_OneWatcherPerEntry ==
    pc = "watching"
        => /\ DOMAIN result.watchers = {options.entries[k] : k \in 1..Len(options.entries)}
           /\ Cardinality(DOMAIN result.watchers) = Len(options.entries)

\* C9: the globals of the output configuration of a umd build hold, for
\* every external specifier of identifier shape, its camel-cased name, and a
\* user globals entry for the same key replaces the derived value.
C9_UmdGlobals ==
    \A k \in 1..Len(writes) :
        writes[k].requested = <<"u","m","d">>
        => /\ "globals" \in DOMAIN writes[k].config
           /\ LET ext == externalList(options)
                  given == IF options.globals # <<>> /\ options.globals # <<"n","o","n","e">>
                           THEN parseMappingArgument(options.globals)
                           ELSE <<>>
              IN  \A j \in 1..Len(ext) :
                      LooksLikeIdentifier(ext[j].source)
                      => /\ ext[j].source \in DOMAIN writes[k].config.globals
                         /\ writes[k].config.globals[ext[j].source]
                              = IF \E g \in 1..Len(given) : given[g].key = ext[j].source
                                THEN given[CHOOSE g \in 1..Len(given) :
                                               given[g].key = ext[j].source].value
                                ELSE camelCase(ext[j].source)

\* C10: the write order depends only on the set of requested formats: cjs
\* first, then the other formats in ascending lexicographic order.
C10_WriteOrderIsCanonical ==
    \A j, k \in 1..Len(writes) :
        j < k => \/ writes[j].requested = <<"c","j","s">>
                 \/ /\ writes[k].requested # <<"c","j","s">>
                    /\ ~StrGt(writes[j].requested, writes[k].requested)

(***************************************************************************)
(* Properties of a process that runs several builds.                       *)
(***************************************************************************)
\* the #! lines at the head of the given files of the project on disk
ShebangLines(files) == {shebangMatch(fs.code[f]) : f \in files \cap fs.files} \ {<<>>}

BuildModules == {modules[k] : k \in 1..Len(modules)}

BuildEntries == {options.entries[k] : k \in 1..Len(options.entries)}

\* C11: after any sequence of builds in one process, the banner a build
\* emits is determined by that build's own sources alone: it is the leading
\* #! line of the build's entry, and a build none of whose modules starts
\* with a #! line emits no banner, whatever builds ran before it.
C11_BannerFromOwnSources ==
    \A k \in 1..Len(writes) :
        diskChanges = 0 =>
        /\ writes[k].config.banner
              \in (IF ShebangLines(BuildEntries) = {} THEN {<<>>}
                   ELSE ShebangLines(BuildEntries))
        /\ ShebangLines(BuildModules) = {} => writes[k].config.banner = <<>>

====
